---- MODULE Spec2Model ----
(***************************************************************************)
(* A model of kombu/utils/json.py: the JSON encoder extension point        *)
(* (JSONEncoder.default), dumps, the decode hook (object_hook), loads with *)
(* its input normalisation, and the process-wide type registry             *)
(* (_encoders, _decoders, register_type).                                  *)
(*                                                                         *)
(* Text is modelled at the character level: a Python str is a sequence of  *)
(* characters (each a one-character string, or a U+XXXX name for the two   *)
(* non-ASCII characters of the model), a bytes object is a sequence of     *)
(* integers in 0..255.                                                     *)
(***************************************************************************)
EXTENDS Integers, Sequences, FiniteSets, TLC

(***************************************************************************)
(* Characters and UTF-8                                                    *)
(***************************************************************************)

\* The printable ASCII characters, in code point order from U+0020.
AsciiChars ==
  << " ", "!", "\"", "#", "$", "%", "&", "'", "(", ")", "*", "+", ",", "-", ".", "/",
     "0", "1", "2", "3", "4", "5", "6", "7", "8", "9", ":", ";", "<", "=", ">", "?",
     "@", "A", "B", "C", "D", "E", "F", "G", "H", "I", "J", "K", "L", "M", "N", "O",
     "P", "Q", "R", "S", "T", "U", "V", "W", "X", "Y", "Z", "[", "\\", "]", "^", "_",
     "U+0060", "a", "b", "c", "d", "e", "f", "g", "h", "i", "j", "k", "l", "m", "n", "o",
     "p", "q", "r", "s", "t", "u", "v", "w", "x", "y", "z", "{", "|", "}", "~" >>

\* Two characters outside ASCII: e-acute (2 bytes in UTF-8), euro sign (3 bytes).
NonAsciiChars == { "U+00E9", "U+20AC" }

IsAscii(c) == \E i \in DOMAIN AsciiChars : AsciiChars[i] = c

\* ord(c)
Ord(c) ==
  IF c = "U+00E9" THEN 233
  ELSE IF c = "U+20AC" THEN 8364
  ELSE 31 + (CHOOSE i \in DOMAIN AsciiChars : AsciiChars[i] = c)

HasChr(cp) == (cp >= 32 /\ cp <= 126) \/ cp = 233 \/ cp = 8364

\* chr(cp), for the code points of the model's alphabet
Chr(cp) ==
  IF cp = 233 THEN "U+00E9"
  ELSE IF cp = 8364 THEN "U+20AC"
  ELSE AsciiChars[cp - 31]

RECURSIVE Concat(_)
\* the concatenation of a sequence of sequences
Concat(ss) == IF ss = << >> THEN << >> ELSE Head(ss) \o Concat(Tail(ss))

\* The UTF-8 bytes of one code point (code points below U+10000).
Utf8OfCodePoint(cp) ==
  IF cp < 128 THEN << cp >>
  ELSE IF cp < 2048 THEN << 192 + (cp \div 64), 128 + (cp % 64) >>
  ELSE << 224 + (cp \div 4096), 128 + ((cp \div 64) % 64), 128 + (cp % 64) >>

\* str.encode("utf-8")
Utf8Encode(s) == Concat([i \in DOMAIN s |-> Utf8OfCodePoint(Ord(s[i]))])

IsCont(b) == b >= 128 /\ b <= 191

RECURSIVE Utf8DecodeFrom(_, _, _)
\* bytes.decode("utf-8"), strict: the text, or a UnicodeDecodeError.
Utf8DecodeFrom(bs, i, acc) ==
  IF i > Len(bs) THEN [ok |-> TRUE, s |-> acc]
  ELSE IF bs[i] < 128
    THEN IF HasChr(bs[i])
           THEN Utf8DecodeFrom(bs, i + 1, Append(acc, Chr(bs[i])))
           ELSE [ok |-> FALSE, err |-> "UnicodeDecodeError"]
  ELSE IF bs[i] >= 194 /\ bs[i] <= 223 /\ i + 1 <= Len(bs) /\ IsCont(bs[i + 1])
    THEN LET cp == (bs[i] - 192) * 64 + (bs[i + 1] - 128)
         IN  IF HasChr(cp)
               THEN Utf8DecodeFrom(bs, i + 2, Append(acc, Chr(cp)))
               ELSE [ok |-> FALSE, err |-> "UnicodeDecodeError"]
  ELSE IF bs[i] >= 224 /\ bs[i] <= 239 /\ i + 2 <= Len(bs)
          /\ IsCont(bs[i + 1]) /\ IsCont(bs[i + 2])
    THEN LET cp == (bs[i] - 224) * 4096 + (bs[i + 1] - 128) * 64 + (bs[i + 2] - 128)
         IN  IF cp >= 2048 /\ HasChr(cp)
               THEN Utf8DecodeFrom(bs, i + 3, Append(acc, Chr(cp)))
               ELSE [ok |-> FALSE, err |-> "UnicodeDecodeError"]
  ELSE [ok |-> FALSE, err |-> "UnicodeDecodeError"]

Utf8Decode(bs) == Utf8DecodeFrom(bs, 1, << >>)


(***************************************************************************)
(* Python values                                                           *)
(*                                                                         *)
(* Every value is a record whose field t names its class.  Instances of    *)
(* classes (everything that is not a JSON-native builtin) carry a field    *)
(* json: the empty sequence when the object has no __json__ attribute,     *)
(* << r >> when it has a __json__ method that returns r.                   *)
(***************************************************************************)

PyNone == [t |-> "NoneType"]
PyBool(b) == [t |-> "bool", b |-> b]
PyInt(n) == [t |-> "int", n |-> n]
PyStr(s) == [t |-> "str", s |-> s]
PyBytes(data) == [t |-> "bytes", data |-> data]
PyList(items) == [t |-> "list", items |-> items]
\* a dict, as the sequence of its (key, value) pairs in insertion order
PyDict(items) == [t |-> "dict", items |-> items]

\* tzinfo: << >> for a naive value, << minutes >> for a fixed UTC offset
NewDateTime(year, month, day, hour, minute, second, microsecond, tz, json) ==
  [t |-> "datetime", year |-> year, month |-> month, day |-> day, hour |-> hour,
   minute |-> minute, second |-> second, microsecond |-> microsecond, tz |-> tz,
   json |-> json]
NewDate(year, month, day, json) ==
  [t |-> "date", year |-> year, month |-> month, day |-> day, json |-> json]
NewTime(hour, minute, second, microsecond, tz, json) ==
  [t |-> "time", hour |-> hour, minute |-> minute, second |-> second,
   microsecond |-> microsecond, tz |-> tz, json |-> json]
\* a decimal.Decimal, by its canonical string
NewDecimal(digits, json) == [t |-> "Decimal", digits |-> digits, json |-> json]
\* a uuid.UUID, by its 32 hex digits
NewUUID(hex, json) == [t |-> "UUID", hex |-> hex, json |-> json]
\* a django lazy string, by the text it evaluates to
NewPromise(text, json) == [t |-> "DjangoPromise", text |-> text, json |-> json]
\* an instance of the application class K, registered dynamically
NewK(x, json) == [t |-> "K", x |-> x, json |-> json]
\* an instance of an application class nobody registers
NewOther(json) == [t |-> "Other", json |-> json]

\* Return values: a result, or a raised exception.
Ret(v) == [ok |-> TRUE, v |-> v]
Raise(err, args) == [ok |-> FALSE, err |-> err, args |-> args]

\* the classes a value is an instance of (datetime.datetime subclasses datetime.date)
ClassesOf(o) == IF o.t = "datetime" THEN { "datetime", "date" } ELSE { o.t }

IsInstance(o, classes) == ClassesOf(o) \cap classes # { }

(***************************************************************************)
(* String constants                                                        *)
(***************************************************************************)

S_type == << "_", "_", "t", "y", "p", "e", "_", "_" >>
S_value == << "_", "_", "v", "a", "l", "u", "e", "_", "_" >>
S_TYPE_upper == << "_", "_", "T", "Y", "P", "E", "_", "_" >>
S_VALUE_upper == << "_", "_", "V", "A", "L", "U", "E", "_", "_" >>
S_hex == << "h", "e", "x" >>
S_a == << "a" >>
S_b == << "b" >>
S_x == << "x" >>
S_datetime == << "d", "a", "t", "e", "t", "i", "m", "e" >>
S_date == << "d", "a", "t", "e" >>
S_time == << "t", "i", "m", "e" >>
S_decimal == << "d", "e", "c", "i", "m", "a", "l" >>
S_uuid == << "u", "u", "i", "d" >>
S_bytes == << "b", "y", "t", "e", "s" >>
S_base64 == << "b", "a", "s", "e", "6", "4" >>
S_k == << "k" >>
S_unknown == << "u", "n", "k", "n", "o", "w", "n" >>
S_utc_offset == << "+", "0", "0", ":", "0", "0" >>
S_Z == << "Z" >>
S_null == << "n", "u", "l", "l" >>
S_true == << "t", "r", "u", "e" >>
S_false == << "f", "a", "l", "s", "e" >>
S_1999 == << "1", "9", ".", "9", "9" >>
S_010 == << "0", ".", "1", "0" >>
S_hex1 == << "1", "2", "3", "4", "5", "6", "7", "8", "1", "2", "3", "4", "5", "6", "7", "8", "1", "2", "3", "4", "5", "6", "7", "8", "1", "2", "3", "4", "5", "6", "7", "8" >>
S_b64 == << "Y", "Q", "=", "=" >>
S_unsupported == << "U", "n", "s", "u", "p", "p", "o", "r", "t", "e", "d", " ", "t", "y", "p", "e" >>
S_cafe == << "c", "a", "f", "U+00E9" >>
S_euro == << "U+20AC" >>


(***************************************************************************)
(* Text conversions of the built-in kinds                                  *)
(***************************************************************************)

Digit(d) == Chr(48 + d)

RECURSIVE Pad(_, _)
\* "%0<w>d" % n
Pad(n, w) == IF w = 0 THEN << >> ELSE Append(Pad(n \div 10, w - 1), Digit(n % 10))

RECURSIVE IntText(_)
\* str(n) for an int n >= 0
IntText(n) == IF n < 10 THEN << Digit(n) >> ELSE Append(IntText(n \div 10), Digit(n % 10))

EndsWith(s, suffix) ==
  Len(s) >= Len(suffix) /\ SubSeq(s, Len(s) - Len(suffix) + 1, Len(s)) = suffix

\* date.isoformat(): YYYY-MM-DD
DateIso(o) == Pad(o.year, 4) \o << "-" >> \o Pad(o.month, 2) \o << "-" >> \o Pad(o.day, 2)

\* the UTC offset suffix of isoformat(): empty for a naive value, else +HH:MM / -HH:MM
OffsetIso(tz) ==
  IF tz = << >> THEN << >>
  ELSE LET m == tz[1]
           a == IF m < 0 THEN 0 - m ELSE m
       IN  << IF m < 0 THEN "-" ELSE "+" >> \o Pad(a \div 60, 2) \o << ":" >> \o Pad(a % 60, 2)

\* time.isoformat(): HH:MM:SS[.ffffff][+HH:MM]
TimeIso(o) ==
  Pad(o.hour, 2) \o << ":" >> \o Pad(o.minute, 2) \o << ":" >> \o Pad(o.second, 2)
    \o (IF o.microsecond # 0 THEN << "." >> \o Pad(o.microsecond, 6) ELSE << >>)
    \o OffsetIso(o.tz)

\* datetime.isoformat(): the date, "T", the time
DateTimeIso(o) == DateIso(o) \o << "T" >> \o TimeIso(o)

\* str(u) for a UUID: 8-4-4-4-12 hex digits
UuidStr(o) ==
  SubSeq(o.hex, 1, 8) \o << "-" >> \o SubSeq(o.hex, 9, 12) \o << "-" >>
    \o SubSeq(o.hex, 13, 16) \o << "-" >> \o SubSeq(o.hex, 17, 20) \o << "-" >>
    \o SubSeq(o.hex, 21, 32)

\* str(o) for the classes of the tuple textual
text_t(o) ==
  IF o.t = "Decimal" THEN o.digits
  ELSE IF o.t = "UUID" THEN UuidStr(o)
  ELSE o.text

(***************************************************************************)
(* JSONEncoder.default                                                     *)
(***************************************************************************)

dates == { "datetime", "date" }
times == { "time" }
textual == { "Decimal", "UUID", "DjangoPromise" }

\* getattr(o, '__json__', None): << >> stands for None
GetReducer(o) == IF "json" \in DOMAIN o THEN o.json ELSE << >>

\* super().default(o): the stock encoder refuses the value
SuperDefault(o) == Raise("TypeError", << o.t >>)

\* the date branch: a plain date is widened to midnight, "+00:00" becomes "Z"
DefaultDates(o) ==
  LET o2 == IF ~IsInstance(o, { "datetime" })
              THEN NewDateTime(o.year, o.month, o.day, 0, 0, 0, 0, << >>, << >>)
              ELSE o
      r == DateTimeIso(o2)
  IN  IF EndsWith(r, S_utc_offset)
        THEN SubSeq(r, 1, Len(r) - 6) \o S_Z
        ELSE r

\* the steps after the __json__ test
DefaultBuiltin(o) ==
  IF IsInstance(o, dates) THEN Ret(PyStr(DefaultDates(o)))
  ELSE IF IsInstance(o, times) THEN Ret(PyStr(TimeIso(o)))
  ELSE IF IsInstance(o, textual) THEN Ret(PyStr(text_t(o)))
  ELSE SuperDefault(o)

\* default with the built-in conversions tried before the __json__ method
default_builtin_first(o) ==
  IF IsInstance(o, dates \cup times \cup textual) \/ GetReducer(o) = << >>
    THEN DefaultBuiltin(o)
    ELSE Ret(GetReducer(o)[1])

\* JSONEncoder.default(o)
default(o) ==
  LET reducer == GetReducer(o)
  IN  IF reducer # << >> THEN Ret(reducer[1]) ELSE DefaultBuiltin(o)


(***************************************************************************)
(* The stock JSON writer that dumps delegates to (json.dumps with          *)
(* cls=JSONEncoder): JSON-native values are written by the writer itself,  *)
(* any other value is handed to default and the result is written in its   *)
(* place.                                                                  *)
(***************************************************************************)

HexDigit(d) == IF d < 10 THEN Digit(d) ELSE Chr(87 + d)

\* "\\u%04x" % cp
UEscape(cp) ==
  << "\\", "u", HexDigit(cp \div 4096), HexDigit((cp \div 256) % 16),
     HexDigit((cp \div 16) % 16), HexDigit(cp % 16) >>

\* one character inside a JSON string literal
JsonChar(c, ensure_ascii) ==
  IF c = "\"" THEN << "\\", "\"" >>
  ELSE IF c = "\\" THEN << "\\", "\\" >>
  ELSE IF ensure_ascii /\ ~IsAscii(c) THEN UEscape(Ord(c))
  ELSE << c >>

\* a JSON string literal
JsonString(s, ensure_ascii) ==
  << "\"" >> \o Concat([i \in DOMAIN s |-> JsonChar(s[i], ensure_ascii)]) \o << "\"" >>

RECURSIVE Join(_, _)
\* sep.join(parts)
Join(parts, sep) ==
  IF parts = << >> THEN << >>
  ELSE IF Len(parts) = 1 THEN parts[1]
  ELSE parts[1] \o sep \o Join(Tail(parts), sep)

\* the first raised exception of a sequence of results
FirstError(rs) == rs[CHOOSE i \in DOMAIN rs : ~rs[i].ok /\ \A j \in 1..(i - 1) : rs[j].ok]

AllOk(rs) == \A i \in DOMAIN rs : rs[i].ok

RECURSIVE Encode(_, _)
\* JSONEncoder.encode(o): the JSON text of o, or the exception default raised
Encode(o, ensure_ascii) ==
  IF o.t = "NoneType" THEN Ret(S_null)
  ELSE IF o.t = "bool" THEN Ret(IF o.b THEN S_true ELSE S_false)
  ELSE IF o.t = "int" THEN Ret(IntText(o.n))
  ELSE IF o.t = "str" THEN Ret(JsonString(o.s, ensure_ascii))
  ELSE IF o.t = "list" THEN
    LET rs == [i \in DOMAIN o.items |-> Encode(o.items[i], ensure_ascii)]
    IN  IF AllOk(rs)
          THEN Ret(<< "[" >> \o Join([i \in DOMAIN rs |-> rs[i].v], << ",", " " >>) \o << "]" >>)
          ELSE FirstError(rs)
  ELSE IF o.t = "dict" THEN
    LET rs == [i \in DOMAIN o.items |-> Encode(o.items[i][2], ensure_ascii)]
    IN  IF AllOk(rs)
          THEN Ret(<< "{" >>
                   \o Join([i \in DOMAIN rs |->
                              JsonString(o.items[i][1], ensure_ascii) \o << ":", " " >> \o rs[i].v],
                           << ",", " " >>)
                   \o << "}" >>)
          ELSE FirstError(rs)
  ELSE LET r == default(o)
       IN  IF r.ok THEN Encode(r.v, ensure_ascii) ELSE r

\* dumps(s, **kwargs): the only keyword option the model passes on is ensure_ascii
dumps(s, ensure_ascii) == Encode(s, ensure_ascii)


(***************************************************************************)
(* The decoder and encoder functions the registry holds, by name           *)
(***************************************************************************)

IsDigitChar(c) == \E d \in 0..9 : c = Digit(d)

AllDigits(s) == s # << >> /\ \A i \in DOMAIN s : IsDigitChar(s[i])

RECURSIVE NumOf(_)
\* int(s) for a string of decimal digits
NumOf(s) ==
  IF s = << >> THEN 0
  ELSE 10 * NumOf(SubSeq(s, 1, Len(s) - 1))
         + (CHOOSE d \in 0..9 : s[Len(s)] = Digit(d))

\* the UTC offset at the end of an ISO time: [ok, tz] ("", "Z", "+HH:MM", "-HH:MM")
ParseOffset(s) ==
  IF s = << >> THEN [ok |-> TRUE, tz |-> << >>]
  ELSE IF s = S_Z THEN [ok |-> TRUE, tz |-> << 0 >>]
  ELSE IF Len(s) = 6 /\ s[1] \in { "+", "-" } /\ s[4] = ":"
          /\ AllDigits(SubSeq(s, 2, 3)) /\ AllDigits(SubSeq(s, 5, 6))
          /\ NumOf(SubSeq(s, 2, 3)) < 24 /\ NumOf(SubSeq(s, 5, 6)) < 60
    THEN LET m == 60 * NumOf(SubSeq(s, 2, 3)) + NumOf(SubSeq(s, 5, 6))
         IN  [ok |-> TRUE, tz |-> << IF s[1] = "-" THEN 0 - m ELSE m >>]
  ELSE [ok |-> FALSE]

\* HH:MM:SS
IsClock(s) ==
  /\ Len(s) = 8 /\ s[3] = ":" /\ s[6] = ":"
  /\ AllDigits(SubSeq(s, 1, 2)) /\ AllDigits(SubSeq(s, 4, 5)) /\ AllDigits(SubSeq(s, 7, 8))
  /\ NumOf(SubSeq(s, 1, 2)) < 24 /\ NumOf(SubSeq(s, 4, 5)) < 60 /\ NumOf(SubSeq(s, 7, 8)) < 60

\* YYYY-MM-DD
IsCalendarDate(s) ==
  /\ Len(s) = 10 /\ s[5] = "-" /\ s[8] = "-"
  /\ AllDigits(SubSeq(s, 1, 4)) /\ AllDigits(SubSeq(s, 6, 7)) /\ AllDigits(SubSeq(s, 9, 10))
  /\ NumOf(SubSeq(s, 1, 4)) >= 1
  /\ NumOf(SubSeq(s, 6, 7)) \in 1..12 /\ NumOf(SubSeq(s, 9, 10)) \in 1..31

\* whether an ISO time has the fraction .ffffff after HH:MM:SS
HasFraction(s) == Len(s) >= 15 /\ s[9] = "." /\ AllDigits(SubSeq(s, 10, 15))

\* the time of HH:MM:SS[.ffffff] with the parsed offset off
TimeOfParts(s, frac, off) ==
  IF ~off.ok THEN Raise("ValueError", << s >>)
  ELSE Ret(NewTime(NumOf(SubSeq(s, 1, 2)), NumOf(SubSeq(s, 4, 5)), NumOf(SubSeq(s, 7, 8)),
                   IF frac THEN NumOf(SubSeq(s, 10, 15)) ELSE 0, off.tz, << >>))

\* the part of an ISO time after HH:MM:SS[.ffffff]
AfterClock(s, frac) == IF frac THEN SubSeq(s, 16, Len(s)) ELSE SubSeq(s, 9, Len(s))

TimeWithFraction(s, frac) == TimeOfParts(s, frac, ParseOffset(AfterClock(s, frac)))

\* datetime.time.fromisoformat(s) for HH:MM:SS[.ffffff][offset]
TimeFromIso(s) ==
  IF Len(s) < 8 \/ ~IsClock(SubSeq(s, 1, 8)) THEN Raise("ValueError", << s >>)
  ELSE TimeWithFraction(s, HasFraction(s))

\* the datetime of the date at the head of s and the parsed time tm
DateTimeOfParts(s, tm) ==
  IF ~tm.ok THEN Raise("ValueError", << s >>)
  ELSE Ret(NewDateTime(NumOf(SubSeq(s, 1, 4)), NumOf(SubSeq(s, 6, 7)), NumOf(SubSeq(s, 9, 10)),
                       tm.v.hour, tm.v.minute, tm.v.second, tm.v.microsecond, tm.v.tz,
                       << >>))

\* datetime.datetime.fromisoformat(s) for YYYY-MM-DD[THH:MM:SS[.ffffff][offset]]; a
\* date alone is midnight
DateTimeFromIso(s) ==
  IF Len(s) < 10 \/ ~IsCalendarDate(SubSeq(s, 1, 10)) THEN Raise("ValueError", << s >>)
  ELSE IF Len(s) = 10 THEN DateTimeOfParts(s, Ret(NewTime(0, 0, 0, 0, << >>, << >>)))
  ELSE IF s[11] # "T" THEN Raise("ValueError", << s >>)
  ELSE DateTimeOfParts(s, TimeFromIso(SubSeq(s, 12, Len(s))))

\* r.date(), for the result r of fromisoformat
DateOf(r) == IF r.ok THEN Ret(NewDate(r.v.year, r.v.month, r.v.day, << >>)) ELSE r

\* a decimal numeral in the form str(Decimal) gives back: digits, ".", digits
IsDecimalText(s) ==
  \E i \in DOMAIN s :
    /\ s[i] = "."
    /\ AllDigits(SubSeq(s, 1, i - 1)) /\ AllDigits(SubSeq(s, i + 1, Len(s)))
    /\ (i = 2 \/ s[1] # "0")

IsHexChar(c) == IsDigitChar(c) \/ c \in { "a", "b", "c", "d", "e", "f" }

RECURSIVE Without(_, _)
\* s.replace(c, "")
Without(s, c) ==
  IF s = << >> THEN << >>
  ELSE IF Head(s) = c THEN Without(Tail(s), c)
  ELSE << Head(s) >> \o Without(Tail(s), c)

\* the standard base64 alphabet
B64Chars ==
  << "A", "B", "C", "D", "E", "F", "G", "H", "I", "J", "K", "L", "M", "N", "O", "P",
     "Q", "R", "S", "T", "U", "V", "W", "X", "Y", "Z", "a", "b", "c", "d", "e", "f",
     "g", "h", "i", "j", "k", "l", "m", "n", "o", "p", "q", "r", "s", "t", "u", "v",
     "w", "x", "y", "z", "0", "1", "2", "3", "4", "5", "6", "7", "8", "9", "+", "/" >>

IsB64Char(c) == \E i \in DOMAIN B64Chars : B64Chars[i] = c

B64Index(c) == (CHOOSE i \in DOMAIN B64Chars : B64Chars[i] = c) - 1

RECURSIVE B64Keep(_)
\* the characters that count: the alphabet and the padding sign
B64Keep(s) ==
  IF s = << >> THEN << >>
  ELSE IF IsB64Char(Head(s)) \/ Head(s) = "=" THEN << Head(s) >> \o B64Keep(Tail(s))
  ELSE B64Keep(Tail(s))

RECURSIVE B64Bytes(_)
\* the bytes of a run of alphabet characters (a last group of 2 or 3 gives 1 or 2 bytes)
B64Bytes(s) ==
  IF Len(s) < 2 THEN << >>
  ELSE LET a == B64Index(s[1])
           b == B64Index(s[2])
           b1 == a * 4 + (b \div 16)
       IN  IF Len(s) = 2 THEN << b1 >>
           ELSE LET c == B64Index(s[3])
                    b2 == (b % 16) * 16 + (c \div 4)
                IN  IF Len(s) = 3 THEN << b1, b2 >>
                    ELSE << b1, b2, (c % 4) * 64 + B64Index(s[4]) >>
                           \o B64Bytes(SubSeq(s, 5, Len(s)))

\* base64.b64decode(data): characters outside the alphabet are skipped
B64Decode(s) ==
  LET kept == B64Keep(s)
      n == IF \E i \in DOMAIN kept : kept[i] = "="
             THEN (CHOOSE i \in DOMAIN kept :
                     kept[i] = "=" /\ \A j \in 1..(i - 1) : kept[j] # "=") - 1
             ELSE Len(kept)
      pads == Len(kept) - n
  IN  IF (n % 4 = 0) \/ (n % 4 = 2 /\ pads >= 2) \/ (n % 4 = 3 /\ pads >= 1)
        THEN Ret(PyBytes(B64Bytes(SubSeq(kept, 1, n))))
        ELSE Raise("binascii.Error", << s >>)

\* d[key] for a dict whose keys include key
Lookup(o, key) == o.items[CHOOSE i \in DOMAIN o.items : o.items[i][1] = key][2]

\* o.keys(), as a set
Keys(o) == { o.items[i][1] : i \in DOMAIN o.items }

\* uuid.UUID(**o)
UuidFromKwargs(o) ==
  IF o.t # "dict" \/ Keys(o) # { S_hex } THEN Raise("TypeError", << o.t >>)
  ELSE LET h == Lookup(o, S_hex)
       IN  IF h.t # "str" THEN Raise("AttributeError", << h.t >>)
           ELSE LET digits == Without(h.s, "-")
                IN  IF Len(digits) = 32 /\ \A i \in DOMAIN digits : IsHexChar(digits[i])
                      THEN Ret(NewUUID(digits, << >>))
                      ELSE Raise("ValueError", << h.s >>)

\* decimal.Decimal(o)
DecimalOf(o) ==
  IF o.t = "int" THEN Ret(NewDecimal(IntText(o.n), << >>))
  ELSE IF o.t = "bool" THEN Ret(NewDecimal(IntText(IF o.b THEN 1 ELSE 0), << >>))
  ELSE IF o.t = "str"
    THEN IF IsDecimalText(o.s) \/ (AllDigits(o.s) /\ (Len(o.s) = 1 \/ o.s[1] # "0"))
           THEN Ret(NewDecimal(o.s, << >>))
           ELSE Raise("decimal.InvalidOperation", << o.s >>)
  ELSE Raise("TypeError", << o.t >>)

\* the names of the functions registry entries hold
DefaultDecoders == { "bytes_dec", "base64_dec", "datetime.fromisoformat", "date_dec",
                     "time.fromisoformat", "Decimal", "uuid_dec" }
CustomDecoders == { "decK", "decAlt" }

\* decoder(o), for a decoder function by name
ApplyDecoder(decoder, o) ==
  IF decoder = "bytes_dec" THEN
    IF o.t = "str" THEN Ret(PyBytes(Utf8Encode(o.s))) ELSE Raise("AttributeError", << o.t >>)
  ELSE IF decoder = "base64_dec" THEN
    IF o.t = "str" THEN B64Decode(o.s) ELSE Raise("AttributeError", << o.t >>)
  ELSE IF decoder = "datetime.fromisoformat" THEN
    IF o.t = "str" THEN DateTimeFromIso(o.s) ELSE Raise("TypeError", << o.t >>)
  ELSE IF decoder = "date_dec" THEN
    IF o.t = "str" THEN DateOf(DateTimeFromIso(o.s)) ELSE Raise("TypeError", << o.t >>)
  ELSE IF decoder = "time.fromisoformat" THEN
    IF o.t = "str" THEN TimeFromIso(o.s) ELSE Raise("TypeError", << o.t >>)
  ELSE IF decoder = "Decimal" THEN DecimalOf(o)
  ELSE IF decoder = "uuid_dec" THEN UuidFromKwargs(o)
  ELSE IF decoder = "decK" THEN
    IF o.t = "int" THEN Ret(NewK(o.n, << >>)) ELSE Raise("TypeError", << o.t >>)
  ELSE Ret(PyList(<< o >>))

\* encoder(o), for an encoder function by name
ApplyEncoder(encoder, o) ==
  IF encoder = "datetime.isoformat" THEN PyStr(DateTimeIso(o))
  ELSE IF encoder = "date_enc" THEN PyStr(DateIso(o))
  ELSE IF encoder = "time_enc" THEN PyStr(TimeIso(o))
  ELSE IF encoder = "str" THEN PyStr(text_t(o))
  ELSE IF encoder = "uuid_enc" THEN PyDict(<< << S_hex, PyStr(o.hex) >> >>)
  ELSE PyInt(o.x)


(***************************************************************************)
(* State                                                                   *)
(***************************************************************************)

VARIABLES
  _encoders,  \* the encode table: kind -> << marker, encoder >>
  _decoders,  \* the decode table: marker -> decoder
  log,        \* history: the register_type calls made after import, in order
  last        \* the last dumps or loads call: its arguments and what it returned

vars == << _encoders, _decoders, log, last >>

\* how many register_type calls a behaviour makes after import
MaxRegs == 2

\* d with key k set to v (insert or overwrite)
Put(d, k, v) == [x \in DOMAIN d \cup { k } |-> IF x = k THEN v ELSE d[x]]

\* register_type that keeps the decoder a marker already has
register_type_keep_first(enc, dec, t, marker, encoder, decoder) ==
  [encoders |-> Put(enc, t, << marker, encoder >>),
   decoders |-> IF marker \in DOMAIN dec THEN dec ELSE Put(dec, marker, decoder)]

\* register_type(t, marker, encoder, decoder): the two tables after the call
register_type(enc, dec, t, marker, encoder, decoder) ==
  [encoders |-> Put(enc, t, << marker, encoder >>),
   decoders |-> Put(dec, marker, decoder)]

\* the decode table the module starts from, before the register_type calls at import
LiteralDecoders == Put(Put(<< >>, S_bytes, "bytes_dec"), S_base64, "base64_dec")

\* the five register_type calls made at import, in source order; the first one names
\* the module datetime, not the class datetime.datetime
ImportCalls ==
  << << "module datetime", S_datetime, "datetime.isoformat", "datetime.fromisoformat" >>,
     << "date", S_date, "date_enc", "date_dec" >>,
     << "time", S_time, "time_enc", "time.fromisoformat" >>,
     << "Decimal", S_decimal, "str", "Decimal" >>,
     << "UUID", S_uuid, "uuid_enc", "uuid_dec" >> >>

RECURSIVE AfterCalls(_, _)
\* the tables after the first n import calls
AfterCalls(calls, n) ==
  IF n = 0 THEN [encoders |-> << >>, decoders |-> LiteralDecoders]
  ELSE LET r == AfterCalls(calls, n - 1)
           c == calls[n]
       IN  register_type(r.encoders, r.decoders, c[1], c[2], c[3], c[4])

ImportState == AfterCalls(ImportCalls, Len(ImportCalls))

(***************************************************************************)
(* object_hook and the stock parser that loads delegates to                *)
(***************************************************************************)

\* whether _decoders.get(key) can hash its key
Hashable(key) == key.t \notin { "list", "dict" }

\* _decoders.get(key): << decoder >>, or << >> for None
DecodersGet(key) ==
  IF key.t = "str" /\ key.s \in DOMAIN _decoders THEN << _decoders[key.s] >> ELSE << >>

\* A result with the registry accesses made on the way: trace is a sequence of
\* [kind |-> "get", key] (a lookup in _decoders) and [kind |-> "call", decoder, arg].
Traced(r, trace) == [res |-> r, trace |-> trace]

\* the reserved key set
EnvelopeKeys == { S_type, S_value }

\* object_hook that treats every object holding the two reserved keys as an envelope
object_hook_superset(o) ==
  IF EnvelopeKeys \subseteq Keys(o) THEN
    LET key == Lookup(o, S_type)
        decoder == DecodersGet(key)
    IN  IF Hashable(key) /\ decoder # << >>
          THEN Traced(ApplyDecoder(decoder[1], Lookup(o, S_value)),
                      << [kind |-> "get", key |-> key],
                         [kind |-> "call", decoder |-> decoder[1],
                          arg |-> Lookup(o, S_value)] >>)
          ELSE Traced(Raise("ValueError", << S_unsupported, "builtin type", o >>),
                      << [kind |-> "get", key |-> key] >>)
  ELSE Traced(Ret(o), << >>)

\* object_hook(o)
object_hook(o) ==
  IF Keys(o) = EnvelopeKeys THEN
    LET key == Lookup(o, S_type)
        get == [kind |-> "get", key |-> key]
    IN  IF ~Hashable(key)
          THEN Traced(Raise("TypeError", << "unhashable type", key.t >>), << get >>)
          ELSE LET decoder == DecodersGet(key)
               IN  IF decoder # << >>
                     THEN Traced(ApplyDecoder(decoder[1], Lookup(o, S_value)),
                                 << get, [kind |-> "call", decoder |-> decoder[1],
                                          arg |-> Lookup(o, S_value)] >>)
                     ELSE Traced(Raise("ValueError", << S_unsupported, "builtin type", o >>),
                                 << get >>)
  ELSE Traced(Ret(o), << >>)

\* the result of b, made after a: the traces in order
After(a, b) == Traced(b.res, a.trace \o b.trace)

\* acc with one more built value, or with the error that stops the building
Collect(acc, b) ==
  Traced(IF b.res.ok THEN Ret(Append(acc.res.v, b.res.v)) ELSE b.res, acc.trace \o b.trace)

RECURSIVE Build(_)
RECURSIVE BuildAll(_, _, _)
\* the values of a sequence of parsed nodes, left to right, stopping at the first error
BuildAll(nodes, i, acc) ==
  IF i > Len(nodes) \/ ~acc.res.ok THEN acc
  ELSE BuildAll(nodes, i + 1, Collect(acc, Build(nodes[i])))

\* the array of the built items
BuiltList(all) == IF all.res.ok THEN Traced(Ret(PyList(all.res.v)), all.trace) ELSE all

\* the object of the built members, passed through object_hook
BuiltObject(d, all) ==
  IF all.res.ok
    THEN After(all, object_hook(PyDict([i \in DOMAIN d.items |->
                                          << d.items[i][1], all.res.v[i] >>])))
    ELSE all

\* What the parser builds for a parsed document: every object literal goes through
\* object_hook once its members are built (innermost first).
Build(d) ==
  IF d.t = "list" THEN BuiltList(BuildAll(d.items, 1, Traced(Ret(<< >>), << >>)))
  ELSE IF d.t = "dict" THEN
    BuiltObject(d, BuildAll([i \in DOMAIN d.items |-> d.items[i][2]], 1,
                            Traced(Ret(<< >>), << >>)))
  ELSE Traced(Ret(d), << >>)

(***************************************************************************)
(* The values and documents the model exercises                            *)
(***************************************************************************)

S_dt_offset == << "2", "0", "2", "4", "-", "0", "2", "-", "2", "9", "T", "2", "3", ":", "5", "9", ":", "5", "9", ".", "0", "0", "0", "1", "2", "3", "+", "0", "2", ":", "0", "0" >>
S_date1 == << "2", "0", "2", "4", "-", "0", "1", "-", "0", "1" >>
S_time1 == << "1", "2", ":", "3", "0", ":", "0", "0" >>

Markers == { S_datetime, S_date, S_time, S_decimal, S_uuid, S_bytes, S_base64 }

\* the envelope shape
Envelope(marker, payload) == PyDict(<< << S_type, marker >>, << S_value, payload >> >>)

\* payloads tried under every __type__ value
CommonPayloads ==
  { PyStr(S_a), PyInt(1), PyNone, PyDict(<< << S_hex, PyStr(S_hex1) >> >>) }

\* values found under __type__: registered markers, unregistered ones, and JSON values
\* that are no strings
TypeValues ==
  { PyStr(m) : m \in Markers \cup { S_k, S_unknown } }
    \cup { PyNone, PyInt(1), PyBool(TRUE), PyList(<< PyStr(S_decimal) >>),
           PyDict(<< << S_a, PyInt(1) >> >>) }

\* markers with a text payload of their own kind, or of no kind
TextEnvelopes ==
  { << S_datetime, S_dt_offset >>, << S_datetime, S_date1 >>, << S_date, S_date1 >>,
    << S_date, S_dt_offset >>, << S_time, S_time1 >>, << S_decimal, S_1999 >>,
    << S_decimal, S_010 >>, << S_base64, S_b64 >>, << S_base64, S_1999 >>,
    << S_bytes, S_cafe >>, << S_unknown, S_1999 >>, << S_k, S_1999 >> }

\* object literals whose key set is exactly the reserved pair
EnvelopeDocs ==
  { Envelope(m, p) : m \in TypeValues, p \in CommonPayloads }
    \cup { Envelope(PyStr(e[1]), PyStr(e[2])) : e \in TextEnvelopes }

\* object literals whose key set is not the reserved pair: a subset, a superset,
\* other case, unrelated keys, no keys
OtherObjectDocs ==
  { PyDict(<< >>),
    PyDict(<< << S_a, PyInt(1) >>, << S_b, PyInt(2) >> >>),
    PyDict(<< << S_x, PyInt(1) >> >>),
    PyDict(<< << S_type, PyStr(S_decimal) >> >>),
    PyDict(<< << S_type, PyStr(S_unknown) >> >>),
    PyDict(<< << S_value, PyStr(S_1999) >> >>),
    PyDict(<< << S_type, PyStr(S_decimal) >>, << S_value, PyStr(S_1999) >>,
              << S_a, PyInt(1) >> >>),
    PyDict(<< << S_type, PyStr(S_unknown) >>, << S_value, PyStr(S_a) >>,
              << S_a, PyInt(1) >> >>),
    PyDict(<< << S_TYPE_upper, PyStr(S_decimal) >>, << S_VALUE_upper, PyStr(S_1999) >> >>),
    PyDict(<< << S_type, PyStr(S_unknown) >>, << S_a, PyInt(1) >> >>),
    PyDict(<< << S_cafe, PyStr(S_euro) >> >>) }

\* scalars and arrays
ScalarDocs ==
  { PyNone, PyBool(TRUE), PyBool(FALSE), PyInt(1), PyInt(120), PyStr(S_a), PyStr(S_cafe),
    PyStr(S_euro), PyStr(<< "\"", "\\" >>), PyList(<< >>), PyList(<< PyInt(1), PyStr(S_a) >>) }

\* the reserved pair in the other key order, and envelopes inside other documents
NestedDocs ==
  { PyDict(<< << S_value, PyStr(S_1999) >>, << S_type, PyStr(S_decimal) >> >>),
    PyDict(<< << S_a, Envelope(PyStr(S_decimal), PyStr(S_1999)) >> >>),
    PyDict(<< << S_a, Envelope(PyStr(S_unknown), PyStr(S_a)) >>, << S_b, PyInt(2) >> >>),
    PyList(<< Envelope(PyStr(S_uuid), PyDict(<< << S_hex, PyStr(S_hex1) >> >>)), PyInt(1) >>),
    PyList(<< PyDict(<< << S_a, PyInt(1) >> >>), PyDict(<< << S_x, PyInt(1) >> >>) >>),
    Envelope(PyStr(S_bytes), Envelope(PyStr(S_decimal), PyStr(S_1999))),
    Envelope(Envelope(PyStr(S_decimal), PyStr(S_1999)), PyInt(1)),
    Envelope(PyStr(S_k), PyStr(S_cafe)) }

\* the documents given to loads as text
InputDocs == EnvelopeDocs \cup OtherObjectDocs \cup ScalarDocs \cup NestedDocs

NoJson == << >>

\* instances of the default-registered kinds, without a __json__ method
DateTimeValues ==
  { NewDateTime(2024, 1, 1, 0, 0, 0, 0, << 0 >>, NoJson),
    NewDateTime(2024, 1, 1, 12, 30, 0, 0, << >>, NoJson),
    NewDateTime(2024, 2, 29, 23, 59, 59, 123, << 120 >>, NoJson) }
DateValues == { NewDate(2024, 1, 1, NoJson), NewDate(2024, 2, 29, NoJson) }
TimeValues == { NewTime(12, 30, 0, 0, << >>, NoJson), NewTime(0, 0, 0, 123, << 0 >>, NoJson) }
DecimalValues == { NewDecimal(S_1999, NoJson), NewDecimal(S_010, NoJson) }
UuidValues == { NewUUID(S_hex1, NoJson) }
DefaultKindValues ==
  DateTimeValues \cup DateValues \cup TimeValues \cup DecimalValues \cup UuidValues

\* instances of the dynamically registered class K
KValues == { NewK(1, NoJson), NewK(120, NoJson) }

\* objects with a __json__ method, of built-in kinds, of K and of an unregistered class
ReducerValues ==
  { NewDecimal(S_1999, << PyStr(S_a) >>),
    NewDateTime(2024, 1, 1, 0, 0, 0, 0, << 0 >>, << PyDict(<< << S_x, PyInt(1) >> >>) >>),
    NewDate(2024, 1, 1, << PyInt(1) >>),
    NewTime(12, 30, 0, 0, << >>, << PyNone >>),
    NewUUID(S_hex1, << PyList(<< PyInt(1), PyStr(S_a) >>) >>),
    NewK(1, << PyStr(S_k) >>),
    NewOther(<< NewDecimal(S_010, NoJson) >>),
    NewOther(<< NewOther(NoJson) >>) }

\* the remaining values default can be handed
OtherValues ==
  { NewPromise(S_cafe, NoJson), NewOther(NoJson), PyBytes(<< 97 >>),
    PyDict(<< << S_a, NewDecimal(S_1999, NoJson) >>, << S_b, NewDate(2024, 2, 29, NoJson) >> >>),
    PyList(<< NewK(1, NoJson), PyInt(1) >>) }

\* the plain JSON-native values given to dumps
PlainValues ==
  OtherObjectDocs \cup ScalarDocs \cup NestedDocs
    \cup { Envelope(m, PyStr(S_1999)) : m \in { PyStr(S_decimal), PyStr(S_unknown), PyNone } }

DumpValues ==
  PlainValues \cup DefaultKindValues \cup KValues \cup ReducerValues \cup OtherValues

RECURSIVE Plain(_)
\* the JSON-native structure the writer writes for o: o with every value that is not
\* JSON-native replaced by what default returns for it (o itself when default raises)
Plain(o) ==
  IF o.t \in { "NoneType", "bool", "int", "str" } THEN o
  ELSE IF o.t = "list" THEN PyList([i \in DOMAIN o.items |-> Plain(o.items[i])])
  ELSE IF o.t = "dict"
    THEN PyDict([i \in DOMAIN o.items |-> << o.items[i][1], Plain(o.items[i][2]) >>])
  ELSE LET r == default(o) IN IF r.ok THEN Plain(r.v) ELSE o

\* the documents the parser of the model knows: the inputs and whatever dumps writes
Docs == InputDocs \cup { Plain(v) : v \in { x \in DumpValues : Encode(x, TRUE).ok } }

\* the JSON texts of the documents, with and without \u escapes, each with its document
TextPairs ==
  UNION { { << Encode(d, TRUE).v, d >>, << Encode(d, FALSE).v, d >> } : d \in Docs }

\* The stock parser on a text, as the inverse of the writer on the documents of the
\* model: a syntax error for a text that is no JSON document.
ParseJson(text) ==
  LET hits == { p \in TextPairs : p[1] = text }
  IN  IF hits # { }
        THEN Build((CHOOSE p \in hits : TRUE)[2])
        ELSE Traced(Raise("JSONDecodeError", << text >>), << >>)

\* the text the stock parser reads from its argument: a str as it is, a bytes or
\* bytearray object decoded as UTF-8, anything else refused
ParserText(s) ==
  IF s.t = "str" THEN [ok |-> TRUE, s |-> s.s]
  ELSE IF s.t \in { "bytes", "bytearray" } THEN Utf8Decode(s.data)
  ELSE [ok |-> FALSE, err |-> "TypeError"]

\* the parse of the text read, or the error of reading it
ParseRead(text) ==
  IF text.ok THEN ParseJson(text.s) ELSE Traced(Raise(text.err, << >>), << >>)

\* json.loads(s, object_hook=object_hook)
_loads(s) == ParseRead(ParserText(s))

(***************************************************************************)
(* loads                                                                   *)
(***************************************************************************)

\* s.decode("utf-8"), as a str value or the UnicodeDecodeError
DecodeUtf8(data) ==
  LET d == Utf8Decode(data)
  IN  IF d.ok THEN Ret(PyStr(d.s)) ELSE Raise("UnicodeDecodeError", << >>)

\* the normalisation without the memoryview branch
Normalize_no_memoryview(s, decode_bytes) ==
  IF s.t = "bytearray" THEN DecodeUtf8(s.data)
  ELSE IF decode_bytes /\ s.t = "bytes" THEN DecodeUtf8(s.data)
  ELSE Ret(s)

\* the input normalisation of loads: what is handed to the parser
Normalize(s, decode_bytes) ==
  IF s.t = "memoryview" THEN DecodeUtf8(s.data)
  ELSE IF s.t = "bytearray" THEN DecodeUtf8(s.data)
  ELSE IF decode_bytes /\ s.t = "bytes" THEN DecodeUtf8(s.data)
  ELSE Ret(s)

\* the parse of what the normalisation returned, or the error it raised
ParseGiven(n) == IF n.ok THEN _loads(n.v) ELSE Traced(n, << >>)

\* loads(s, decode_bytes=decode_bytes): the result, with the registry accesses made
loads(s, decode_bytes) == ParseGiven(Normalize(s, decode_bytes))

(***************************************************************************)
(* Calls                                                                   *)
(***************************************************************************)

\* a text in one of the representations loads accepts
AsInput(rep, text) ==
  IF rep = "str" THEN PyStr(text) ELSE [t |-> rep, data |-> Utf8Encode(text)]

Reps == { "str", "bytes", "bytearray", "memoryview" }

\* the documents also given to loads as bytes, bytearray and memoryview
ByteDocs ==
  { PyDict(<< << S_x, PyInt(1) >> >>),
    PyDict(<< << S_cafe, PyStr(S_euro) >> >>),
    PyStr(S_euro),
    Envelope(PyStr(S_decimal), PyStr(S_1999)),
    Envelope(PyStr(S_unknown), PyStr(S_a)),
    Envelope(PyStr(S_k), PyStr(S_cafe)) }

\* texts that are no JSON documents
BadTexts == { << "{" >>, << "{", "\"", "a", "\"", "}" >> }

\* byte strings that are no UTF-8
BadBytes == { << 123, 255 >>, << 195 >> }

\* the texts given to loads: the raw text of every input document (ensure_ascii off),
\* the escaped text of two, and the texts that are no documents
InputTexts ==
  { Encode(d[1], d[2]).v :
      d \in (InputDocs \X { FALSE }) \cup ({ PyStr(S_cafe), PyStr(S_euro) } \X { TRUE }) }
    \cup BadTexts

\* the texts also given as bytes, bytearray and memoryview
ByteTexts == { Encode(d, FALSE).v : d \in ByteDocs } \cup BadTexts

\* the loads calls of the model: [s, decode_bytes, text, src]; text is << t >> when s
\* represents the text t and << >> when s is no UTF-8; src is << >>
LoadCalls ==
  { [s |-> AsInput(c[1], c[2]), decode_bytes |-> c[3], text |-> << c[2] >>, src |-> << >>] :
      c \in (({ "str" } \X InputTexts \X { TRUE })
               \cup ((Reps \ { "str" }) \X ByteTexts \X BOOLEAN)) }
    \cup { [s |-> [t |-> c[1], data |-> c[2]], decode_bytes |-> c[3], text |-> << >>,
            src |-> << >>] :
             c \in (Reps \ { "str" }) \X BadBytes \X BOOLEAN }

\* the loads call a caller makes on the text dumps has just returned; src is << v >>,
\* v being the value that was dumped
DumpedCalls ==
  IF last.op = "dumps" /\ last.out.ok
    THEN { [s |-> PyStr(last.out.v), decode_bytes |-> TRUE, text |-> << last.out.v >>,
            src |-> << last.arg >>] }
    ELSE { }

\* no call under way: the caller is between two calls
NoCall == [op |-> "none"]

Init ==
  /\ _encoders = ImportState.encoders
  /\ _decoders = ImportState.decoders
  /\ log = << >>
  /\ last = NoCall

\* the kinds, markers and functions later register_type calls name
RegKinds == { "K", "Decimal" }
RegMarkers == { S_k, S_decimal }
RegEncoders == { "encK" }

\* a register_type call after import
Register(t, marker, encoder, decoder) ==
  /\ last = NoCall
  /\ Len(log) < MaxRegs
  /\ LET r == register_type(_encoders, _decoders, t, marker, encoder, decoder)
     IN  /\ _encoders' = r.encoders
         /\ _decoders' = r.decoders
  /\ log' = Append(log, [t |-> t, marker |-> marker, encoder |-> encoder,
                         decoder |-> decoder])
  /\ UNCHANGED last

\* a dumps call
Dumps(s, ensure_ascii) ==
  /\ last = NoCall
  /\ last' = [op |-> "dumps", arg |-> s, ensure_ascii |-> ensure_ascii,
              out |-> dumps(s, ensure_ascii)]
  /\ UNCHANGED << _encoders, _decoders, log >>

\* the record of a loads call c that returned r
LoadRecord(c, r) ==
  [op |-> "loads", arg |-> c.s, decode_bytes |-> c.decode_bytes, text |-> c.text,
   given |-> Normalize(c.s, c.decode_bytes), out |-> r.res, trace |-> r.trace,
   src |-> c.src]

\* a loads call: on an input of the model when no call is under way, on the text just
\* returned when the last call was a dumps
Loads(c) ==
  /\ last' = LoadRecord(c, loads(c.s, c.decode_bytes))
  /\ UNCHANGED << _encoders, _decoders, log >>

\* the caller has taken the result of the last call
Return ==
  /\ last # NoCall
  /\ last' = NoCall
  /\ UNCHANGED << _encoders, _decoders, log >>

Next ==
  \/ \E t \in RegKinds, marker \in RegMarkers, encoder \in RegEncoders,
        decoder \in CustomDecoders : Register(t, marker, encoder, decoder)
  \/ \E s \in DumpValues, ensure_ascii \in BOOLEAN : Dumps(s, ensure_ascii)
  \/ \E c \in (IF last = NoCall THEN LoadCalls ELSE DumpedCalls) : Loads(c)
  \/ Return

Spec == Init /\ [][Next]_vars


(***************************************************************************)
(* Properties                                                              *)
(***************************************************************************)

\* the document a text of the model is the JSON text of
DocOfText(text) == (CHOOSE p \in TextPairs : p[1] = text)[2]

\* the last call was loads on a text that is a JSON document of the model
LoadedDoc == last.op = "loads" /\ last.text # << >> /\ \E p \in TextPairs : p[1] = last.text[1]

\* the last call was loads on the text dumps returned for a value of the set vals
RoundTripOf(vals) == last.op = "loads" /\ last.src # << >> /\ last.src[1] \in vals

\* whether sub occurs in text
HasSub(text, sub) ==
  \E i \in 1..(Len(text) - Len(sub) + 1) : SubSeq(text, i, i + Len(sub) - 1) = sub

\* the marker the default table gives a value of a default-registered kind
TableMarker(v) ==
  IF v.t = "datetime" THEN S_datetime
  ELSE IF v.t = "date" THEN S_date
  ELSE IF v.t = "time" THEN S_time
  ELSE IF v.t = "Decimal" THEN S_decimal
  ELSE S_uuid

\* the payloads the default table allows for a value of a default-registered kind
\* (a datetime in UTC may end in +00:00 or in Z)
TablePayloads(v) ==
  IF v.t = "datetime" THEN { PyStr(DateTimeIso(v)), PyStr(DefaultDates(v)) }
  ELSE IF v.t = "date" THEN { PyStr(DateIso(v)) }
  ELSE IF v.t = "time" THEN { PyStr(TimeIso(v)) }
  ELSE IF v.t = "Decimal" THEN { PyStr(v.digits) }
  ELSE { PyDict(<< << S_hex, PyStr(v.hex) >> >>) }

\* C1: for every value v of a default-registered kind (datetime, date, time, decimal,
\* uuid), under the default registry, loads(dumps(v)) returns a value equal to v.
C1_RoundTripDefaultKinds ==
  (RoundTripOf(DefaultKindValues) /\ log = << >>) => last.out = Ret(last.src[1])

\* C2: for every value of a default-registered kind, dumps returns the envelope
\* {"__type__": marker, "__value__": payload} with the marker and the payload shape of
\* the default table, never the bare payload.
C2_DumpsEmitsEnvelope ==
  (last.op = "dumps" /\ last.arg \in DefaultKindValues) =>
    \E payload \in TablePayloads(last.arg) :
      last.out = Encode(Envelope(PyStr(TableMarker(last.arg)), payload), last.ensure_ascii)

\* C3: once register_type(K, m, enc, dec) has been called for a kind K no earlier
\* fallback step handles, dumps(v) for v of kind K succeeds with the envelope of marker
\* m and payload enc(v), and, dec being the inverse of enc, loads(dumps(v)) = v.
C3_RegisteredKindRoundTrip ==
  /\ (last.op = "dumps" /\ last.arg \in KValues /\ "K" \in DOMAIN _encoders) =>
       last.out = Encode(Envelope(PyStr(_encoders["K"][1]),
                                  ApplyEncoder(_encoders["K"][2], last.arg)),
                         last.ensure_ascii)
  /\ (RoundTripOf(KValues) /\ "K" \in DOMAIN _encoders
        /\ _decoders[_encoders["K"][1]] = "decK") =>
       last.out = Ret(last.src[1])

\* C4: in every registry state, decoding an object literal whose key set is exactly
\* {__type__, __value__} raises the unsupported-type error carrying the marker when the
\* __type__ value (whatever JSON value it is) is no registered marker, and returns
\* decoder(__value__) when it is one.
C4_EnvelopeReservation ==
  (LoadedDoc /\ DocOfText(last.text[1]) \in EnvelopeDocs) =>
    LET o == DocOfText(last.text[1])
        marker == Lookup(o, S_type)
    IN  IF marker.t = "str" /\ marker.s \in DOMAIN _decoders
          THEN last.out = ApplyDecoder(_decoders[marker.s], Lookup(o, S_value))
          ELSE /\ ~last.out.ok
               /\ last.out.err = "ValueError"
               /\ Len(last.out.args) = 3
               /\ Lookup(last.out.args[3], S_type) = marker

\* C5: the text dumps returns for a datetime keeps its time of day and its UTC offset,
\* and the text it returns for a plain date holds the date and no time of day.
C5_DatePrecedence ==
  last.op = "dumps" =>
    /\ last.arg \in DateTimeValues =>
         /\ last.out.ok
         /\ HasSub(last.out.v, TimeIso([last.arg EXCEPT !.tz = << >>]))
         /\ \/ HasSub(last.out.v, OffsetIso(last.arg.tz))
            \/ last.arg.tz = << 0 >> /\ HasSub(last.out.v, S_Z)
    /\ last.arg \in DateValues =>
         /\ last.out.ok
         /\ HasSub(last.out.v, DateIso(last.arg))
         /\ ~HasSub(last.out.v, << "T", "0", "0", ":", "0", "0", ":", "0", "0" >>)

\* C6: for every plain JSON-native value x, objects whose keys are exactly
\* __type__ and __value__ included, loads(dumps(x)) = x, no decoder is called and no
\* error is raised.
C6_PlainRoundTripAnyObject ==
  RoundTripOf(PlainValues) =>
    /\ last.out = Ret(last.src[1])
    /\ \A i \in DOMAIN last.trace : last.trace[i].kind # "call"

\* the decoder the module registers for each of the seven default markers
DefaultDecoderOf(m) ==
  IF m = S_bytes THEN "bytes_dec"
  ELSE IF m = S_base64 THEN "base64_dec"
  ELSE IF m = S_datetime THEN "datetime.fromisoformat"
  ELSE IF m = S_date THEN "date_dec"
  ELSE IF m = S_time THEN "time.fromisoformat"
  ELSE IF m = S_decimal THEN "Decimal"
  ELSE "uuid_dec"

\* the last call of the log that names the marker m
LastWithMarker(m) ==
  log[CHOOSE i \in DOMAIN log :
        log[i].marker = m /\ \A j \in (i + 1)..Len(log) : log[j].marker # m]

\* the last call of the log that names the kind k
LastWithKind(k) ==
  log[CHOOSE i \in DOMAIN log : log[i].t = k /\ \A j \in (i + 1)..Len(log) : log[j].t # k]

\* C7: after any sequence of register_type calls the decode table holds the seven
\* default markers and every marker ever registered, each with the decoder of the most
\* recent call naming it (else its default decoder); the encode table holds, for every
\* kind ever registered, the marker and encoder of the most recent call naming it, and
\* its other entries are unchanged.
C7_RegistryInsertOrOverwrite ==
  /\ Cardinality(Markers) = 7
  /\ DOMAIN _decoders = Markers \cup { log[i].marker : i \in DOMAIN log }
  /\ \A m \in DOMAIN _decoders :
       _decoders[m] = IF \E i \in DOMAIN log : log[i].marker = m
                        THEN LastWithMarker(m).decoder
                        ELSE DefaultDecoderOf(m)
  /\ DOMAIN _encoders = DOMAIN ImportState.encoders \cup { log[i].t : i \in DOMAIN log }
  /\ \A k \in DOMAIN _encoders :
       _encoders[k] = IF \E i \in DOMAIN log : log[i].t = k
                        THEN << LastWithKind(k).marker, LastWithKind(k).encoder >>
                        ELSE ImportState.encoders[k]

\* a marker was registered twice with different decoders, and a default marker was
\* given a new decoder
C7_Witness ==
  /\ Len(log) = 2
  /\ log[1].marker = log[2].marker
  /\ log[1].decoder # log[2].decoder
  /\ log[1].t # log[2].t
  /\ log[2].marker = S_decimal
  /\ _decoders[S_decimal] = log[2].decoder

\* C8: for every object literal whose key set is anything other than exactly
\* {__type__, __value__}, loads returns the object unchanged and makes no access to the
\* decode table, in every registry state.
C8_HookFrame ==
  (LoadedDoc /\ DocOfText(last.text[1]) \in OtherObjectDocs) =>
    /\ last.out = Ret(DocOfText(last.text[1]))
    /\ last.trace = << >>

\* an object with the two reserved keys and a third one came back unchanged while
\* the marker it names was registered by a later register_type call
C8_Witness ==
  /\ LoadedDoc
  /\ DocOfText(last.text[1]) \in OtherObjectDocs
  /\ EnvelopeKeys \subseteq Keys(DocOfText(last.text[1]))
  /\ last.out = Ret(DocOfText(last.text[1]))
  /\ \E i \in DOMAIN log : log[i].marker = S_decimal

\* C9: for every text t, loads given t as a byte string with decode_bytes true, as a
\* bytearray or as a memoryview returns what it returns for t given as a str; a
\* bytearray and a memoryview are decoded to text whatever the flag, a byte string is
\* decoded by loads exactly when the flag is true.
C9_InputNormalization ==
  (last.op = "loads" /\ last.src = << >> /\ last.text # << >>) =>
    /\ last.arg.t \in { "memoryview", "bytearray" } => last.given = Ret(PyStr(last.text[1]))
    /\ last.arg.t = "bytes" =>
         last.given = IF last.decode_bytes THEN Ret(PyStr(last.text[1])) ELSE Ret(last.arg)
    /\ (last.arg.t = "bytes" => last.decode_bytes) =>
         Traced(last.out, last.trace) = loads(PyStr(last.text[1]), TRUE)

\* a memoryview of a text with multi-byte characters was loaded with decode_bytes
\* false and gave the document
C9_Witness ==
  /\ last.op = "loads"
  /\ last.arg.t = "memoryview"
  /\ ~last.decode_bytes
  /\ last.text # << >>
  /\ Len(last.arg.data) > Len(last.text[1])
  /\ last.out.ok
  /\ last.out.v.t = "dict"

\* C10: when default is handed a value that has a __json__ method, what is written is
\* the result of that method, untagged, even when the value is also a date, a time, a
\* decimal or a UUID or of a registered kind.
C10_ReducerFirst ==
  (last.op = "dumps" /\ GetReducer(last.arg) # << >>) =>
    last.out = Encode(GetReducer(last.arg)[1], last.ensure_ascii)

\* a Decimal with a __json__ method was dumped as the result of that method
C10_Witness ==
  /\ last.op = "dumps"
  /\ last.arg.t = "Decimal"
  /\ GetReducer(last.arg) # << >>
  /\ last.out = Ret(JsonString(S_a, TRUE))

====
